---------------------------- MODULE Spec2Model ----------------------------
(***************************************************************************)
(* Model of the Mimi TikTok Reels backend: the Flask handlers of app.py,   *)
(* the MongoDB gateway of mongodb.py, the fallback/mock generator of       *)
(* tiktok_service.py and the scraper's normalizer of tiktok_scraper.py.    *)
(***************************************************************************)
EXTENDS Integers, Sequences, FiniteSets, TLC

VARIABLES
    client,    \* MongoDB.client is not None
    db,        \* app.py's module-level db: "MongoDB" (an object) or "None"
    reels,     \* the documents of the reels collection, in insertion order
    clock,     \* milliseconds shown by datetime.now() at its last reading
    nextOid,   \* number of ObjectIds generated so far
    req,       \* the request handled last
    resp,      \* the response to it
    gen,       \* mock generator: its inputs and the sequence it returned
    norm,      \* normalizer: its input payloads and the records it returned
    threads,   \* like and comment requests handled at the same time
    fetch,     \* a call of a fetch operation and the sequence it returned
    boot       \* the environment the gateway was constructed in, and the
               \* calls of _create_indexes made on it since

vars == <<client, db, reels, clock, nextOid, req, resp, gen, norm, threads, fetch, boot>>

-----------------------------------------------------------------------------
(* Bounds of the model *)

MaxReels == 2      \* documents inserted in one behaviour
MaxClock == 1      \* last millisecond the clock reaches
MaxOid == 2        \* ObjectIds generated in one behaviour
MaxLimit == 1      \* largest limit / count query argument
MaxThreads == 2    \* requests handled at the same time
MaxItems == 1      \* longest itemList the third-party API returns
MaxCount == 3      \* largest count given to the mock generator alone
MaxVideos == 2     \* longest list given to the normalizer alone
MaxCalls == 2      \* most calls of _create_indexes made after the construction

(* Program constants *)

DefaultLimit == 20     \* request.args.get('limit', 20)
SearchPool == 50       \* get_trending_videos(50) behind the mock search

-----------------------------------------------------------------------------
(* Values *)

None == "<None>"                 \* Python's None, or a key that is absent
Users == {"u1", "u2"}
RandHex == {"0a1b2c3d", "ffffffff"}   \* values of os.urandom(4).hex()

\* A JSON value whose type matters is a record [t, s]: t is "none" (the key is
\* absent), "str" (the string s) or "int" (a value that is no string).
VNone == [t |-> "none", s |-> ""]
VInt == [t |-> "int", s |-> ""]
VStr(x) == [t |-> "str", s |-> x]

Min(a, b) == IF a < b THEN a ELSE b
Max(a, b) == IF a > b THEN a ELSE b

\* s[:n] for n >= 0
Take(s, n) == SubSeq(s, 1, Min(n, Len(s)))
\* s[n:] for n >= 0
Drop(s, n) == SubSeq(s, Min(n, Len(s)) + 1, Len(s))


-----------------------------------------------------------------------------
(* tiktok_service.py / tiktok_scraper.py: the mock generator.  The trailing  *)
(* emoji of the description is left out of the strings.                    *)

\* reliable_videos of TikTokService._generate_fallback_videos
ServiceUrls ==
    << "https://commondatastorage.googleapis.com/gtv-videos-bucket/sample/BigBuckBunny.mp4",
       "https://commondatastorage.googleapis.com/gtv-videos-bucket/sample/ElephantsDream.mp4",
       "https://commondatastorage.googleapis.com/gtv-videos-bucket/sample/ForBiggerBlazes.mp4" >>

\* reliable_videos of TikTokScraper._generate_fallback_videos
ScraperUrls ==
    ServiceUrls \o
    << "https://commondatastorage.googleapis.com/gtv-videos-bucket/sample/ForBiggerEscapes.mp4" >>

\* One record's random draws: url is the index random.choice picks; lo tells
\* whether the random.randint calls return the low or the high end of their range.
Draws(urls) == [url : 1..Len(urls), lo : BOOLEAN]

\* A variant of FallbackVideo whose id leaves the index out
FallbackVideoUnindexed(urls, context, i, d) ==
    [ id          |-> "fallback_" \o context,
      videoUrl    |-> urls[d.url],
      description |-> VStr("Awesome " \o context \o " video #" \o ToString(i + 1)),
      isMock      |-> TRUE ]

\* The record appended by the loop body for index i (0-based, as in range(count)).
FallbackVideo(urls, context, i, d) ==
    [ id           |-> "fallback_" \o context \o "_" \o ToString(i),
      videoUrl     |-> urls[d.url],
      thumbnailUrl |-> "https://picsum.photos/400/700?random=" \o ToString(i),
      description  |-> VStr("Awesome " \o context \o " video #" \o ToString(i + 1)),
      author       |-> [ username |-> "user" \o ToString(IF d.lo THEN 1 ELSE 100),
                         nickname |-> "User " \o ToString(IF d.lo THEN 1 ELSE 100),
                         avatar   |-> "https://i.pravatar.cc/150?img="
                                          \o ToString(IF d.lo THEN 1 ELSE 70) ],
      stats        |-> [ likes    |-> IF d.lo THEN 1000 ELSE 100000,
                         comments |-> IF d.lo THEN 50 ELSE 5000,
                         shares   |-> IF d.lo THEN 20 ELSE 2000,
                         views    |-> IF d.lo THEN 10000 ELSE 1000000 ],
      duration     |-> IF d.lo THEN 15 ELSE 60,
      hashtags     |-> << "#" \o context, "#viral", "#fyp" >>,
      isMock       |-> TRUE,
      createdAt    |-> "2024-01-" \o ToString(IF d.lo THEN 10 ELSE 30) \o "T00:00:00Z" ]

\* range(count): the indices 0 .. count-1, none when count <= 0
Range(count) == 0 .. (count - 1)

\* for i in range(count): videos.append({...}); rnd[i + 1] holds the draws of round i
GenerateLoop(urls, count, context, rnd) ==
    [ k \in 1 .. Cardinality(Range(count)) |-> FallbackVideo(urls, context, k - 1, rnd[k]) ]

\* TikTokService._generate_fallback_videos(count, context)
Service_generate_fallback_videos(count, context, rnd) ==
    GenerateLoop(ServiceUrls, count, context, rnd)

\* TikTokScraper._generate_fallback_videos(count, context)
Scraper_generate_fallback_videos(count, context, rnd) ==
    GenerateLoop(ScraperUrls, count, context, rnd)

\* Some of the draws a call of count rounds can make: every round's url index
\* shifted by k, all rounds at the same end of the ranges.
RndFamily(urls, count) ==
    { [ i \in 1 .. Max(count, 0) |-> [url |-> ((i + k) % Len(urls)) + 1, lo |-> b] ]
        : k \in 0 .. (Len(urls) - 1), b \in BOOLEAN }

\* All the draws a call of count rounds can make (within Draws).
RndAll(urls, count) == [ 1 .. Max(count, 0) -> Draws(urls) ]

-----------------------------------------------------------------------------
(* Raw third-party payloads *)

\* A raw video: shape says whether the payload itself is a JSON object; video,
\* author and stats are "absent", "dict" or "nondict" (a string, a number, null
\* is "nondict": .get on it raises); challenges is "absent", "nondict" or "list",
\* and then titles holds each entry's title (VNone: the entry has no 'title').
RawVideo(shape, id, desc, video, urls, author, stats, challenges, titles) ==
    [ shape |-> shape, id |-> id, desc |-> desc, video |-> video,
      downloadAddr |-> urls[1], playAddr |-> urls[2],
      videoUrl |-> urls[3], url |-> urls[4],
      author |-> author, stats |-> stats,
      challenges |-> challenges, titles |-> titles ]

\* d.get(key, {}).get(...) raises when d[key] is present and no dict
NestedRaises(kind) == kind = "nondict"

\* A variant of IsValidUrl that leaves the startswith test out
IsNonEmptyStr(v) == v.t = "str" /\ v.s # ""

\* url and isinstance(url, str) and url.startswith('http')
IsValidUrl(v) ==
    /\ v.t = "str"
    /\ v.s # ""
    /\ Len(v.s) >= 4
    /\ SubSeq(v.s, 1, 4) = "http"

\* TikTokScraper._get_video_url: [raised, url]; url is VNone for Python's None
Scraper_get_video_url(vd) ==
    IF vd.shape # "dict" \/ NestedRaises(vd.video)
    THEN [raised |-> TRUE, url |-> VNone]
    ELSE LET inVideo(v) == IF vd.video = "dict" THEN v ELSE VNone
             possible_urls == << inVideo(vd.downloadAddr), inVideo(vd.playAddr),
                                 vd.videoUrl, inVideo(vd.url) >>
             valid == SelectSeq(possible_urls, IsValidUrl)
         IN  [raised |-> FALSE, url |-> IF valid # <<>> THEN valid[1] ELSE VNone]

\* [challenge['title'] for challenge in video_data.get('challenges', [])][:3]
Scraper_hashtags(vd) ==
    IF vd.challenges = "absent" THEN [raised |-> FALSE, tags |-> <<>>]
    ELSE IF vd.challenges = "nondict" THEN [raised |-> TRUE, tags |-> <<>>]
    ELSE IF \E i \in DOMAIN vd.titles : vd.titles[i].t = "none"
         THEN [raised |-> TRUE, tags |-> <<>>]
         ELSE [raised |-> FALSE,
               tags |-> Take([i \in DOMAIN vd.titles |-> vd.titles[i].s], 3)]

\* TikTokScraper._process_video_data: <<>> for None, else <<record>>.  rid is the
\* value of random.randint(10000, 99999) behind a missing id.
Scraper_process_video_data(vd, rid) ==
    LET u == Scraper_get_video_url(vd)
        h == Scraper_hashtags(vd)
    IN  IF u.raised THEN <<>>
        ELSE IF u.url.t = "none" THEN <<>>      \* if not video_url: return None
        ELSE IF NestedRaises(vd.author) \/ NestedRaises(vd.stats) \/ h.raised
             THEN <<>>                          \* except Exception: return None
        ELSE << [ id          |-> IF vd.id.t = "none" THEN "video_" \o ToString(rid)
                                  ELSE vd.id.s,
                  videoUrl    |-> u.url.s,
                  description |-> IF vd.desc.t = "none" THEN VStr("TikTok Video")
                                  ELSE vd.desc,
                  hashtags    |-> h.tags,
                  isMock      |-> FALSE ] >>

-----------------------------------------------------------------------------
(* tiktok_service.py: the external fetch and its fallback *)

\* One round of the loop of TikTokService._process_api_videos: <<record>>, or <<>>
\* when building the record raises (except Exception: continue).  d holds the
\* round's random draws (_get_playable_url picks from the same three URLs).
Service_process_one(video, rid, d) ==
    IF \/ video.shape # "dict"
       \/ NestedRaises(video.video) \/ NestedRaises(video.author) \/ NestedRaises(video.stats)
    THEN <<>>
    ELSE << [ id           |-> IF video.id.t = "none" THEN "video_" \o ToString(rid)
                               ELSE video.id.s,
              videoUrl     |-> ServiceUrls[d.url],
              thumbnailUrl |-> "https://picsum.photos/400/700",
              description  |-> IF video.desc.t = "none" THEN VStr("TikTok Video")
                               ELSE video.desc,
              author       |-> [ username |-> "tiktok_user", nickname |-> "TikTok User",
                                 avatar |-> "https://i.pravatar.cc/150" ],
              stats        |-> [ likes    |-> IF d.lo THEN 1000 ELSE 100000,
                                 comments |-> IF d.lo THEN 50 ELSE 5000,
                                 shares   |-> IF d.lo THEN 20 ELSE 2000,
                                 views    |-> IF d.lo THEN 10000 ELSE 1000000 ],
              duration     |-> IF d.lo THEN 15 ELSE 60,
              hashtags     |-> << "#trending", "#viral", "#fyp" >>,
              isMock       |-> FALSE,
              createdAt    |-> "2024-01-01T00:00:00Z" ] >>

RECURSIVE Service_process_api_videos(_, _, _)
\* TikTokService._process_api_videos
Service_process_api_videos(video_list, rid, d) ==
    IF video_list = <<>> THEN <<>>
    ELSE Service_process_one(Head(video_list), rid, d)
            \o Service_process_api_videos(Tail(video_list), rid, d)

\* What session.get(...) and response.json() can give: the call raises
\* ("error"), the status is not 200 ("non200"), the body has no or an empty
\* itemList ("no_items"), or it holds the non-empty list items ("items").
ApiOutcome(kind, items) == [kind |-> kind, items |-> items]

\* The randomness of one call of get_trending_videos: rnd, the draws of the
\* generator's rounds; d, the draws behind a processed API video (the same for
\* every video of the call); rid, the value of random.randint(10000, 99999).
Randomness(rnd, d, rid) == [rnd |-> rnd, d |-> d, rid |-> rid]

\* A variant of _get_api_trending_videos that leaves the [:count] out
Service_get_api_trending_videos_uncut(count, api, r) ==
    IF api.kind = "items" /\ api.items # <<>>
    THEN Service_process_api_videos(api.items, r.rid, r.d)
    ELSE Service_generate_fallback_videos(count, "trending", r.rnd)

\* TikTokService._get_api_trending_videos(count)
Service_get_api_trending_videos(count, api, r) ==
    IF api.kind = "items" /\ api.items # <<>>
    THEN Take(Service_process_api_videos(api.items, r.rid, r.d), count)
    ELSE Service_generate_fallback_videos(count, "trending", r.rnd)

\* TikTokService.get_trending_videos(count): the inner call absorbs every
\* exception itself, so the except branch of this one is never taken.
Service_get_trending_videos(count, api, r) ==
    Service_get_api_trending_videos(count, api, r)

-----------------------------------------------------------------------------
(* Strings *)

UpperChars == << "A", "B", "C", "D", "E", "F", "G", "H", "I", "J", "K", "L", "M",
                 "N", "O", "P", "Q", "R", "S", "T", "U", "V", "W", "X", "Y", "Z" >>
LowerChars == << "a", "b", "c", "d", "e", "f", "g", "h", "i", "j", "k", "l", "m",
                 "n", "o", "p", "q", "r", "s", "t", "u", "v", "w", "x", "y", "z" >>

LowerChar(c) ==
    IF \E i \in DOMAIN UpperChars : UpperChars[i] = c
    THEN LowerChars[CHOOSE i \in DOMAIN UpperChars : UpperChars[i] = c]
    ELSE c

RECURSIVE LowerOf(_)
\* str.lower(), character by character
LowerOf(str) ==
    IF str = "" THEN ""
    ELSE LowerChar(SubSeq(str, 1, 1)) \o LowerOf(SubSeq(str, 2, Len(str)))

\* The lower-case forms of the descriptions the mock generator writes,
\* computed once
MockDescriptions == { "Awesome trending video #" \o ToString(i) : i \in 1 .. SearchPool }
LowerTable == [ str \in MockDescriptions |-> LowerOf(str) ]

\* str.lower()
Lower(str) == IF str \in MockDescriptions THEN LowerTable[str] ELSE LowerOf(str)

\* t in str
Contains(str, t) ==
    \E i \in 1 .. (Len(str) - Len(t) + 1) : SubSeq(str, i, i + Len(t) - 1) = t

\* The decimal numerals of 0 .. DefaultLimit and the numbers they denote
Numerals == { ToString(n) : n \in 0 .. DefaultLimit }
NumeralValue == [ text \in Numerals |-> CHOOSE n \in 0 .. DefaultLimit : ToString(n) = text ]

\* int(text): raises unless text is a numeral
IsInt(text) == text \in Numerals
ParseInt(text) == NumeralValue[text]

HexChars == { "0", "1", "2", "3", "4", "5", "6", "7", "8", "9",
              "a", "b", "c", "d", "e", "f", "A", "B", "C", "D", "E", "F" }

\* bson.ObjectId(text) accepts exactly the strings of 24 hexadecimal digits
IsOidStr(text) ==
    /\ Len(text) = 24
    /\ \A i \in 1 .. 24 : SubSeq(text, i, i) \in HexChars

\* The k-th ObjectId this process generates, as str() shows it
OidStr(k) == "65a1f0c2d4e5f6a7b8c9d0e" \o ToString(k)

-----------------------------------------------------------------------------
(* tiktok_service.py: the fetches by hashtag and by user;                    *)
(* tiktok_api_client.py: the client of the TikTokApi library                 *)

UpperChar(c) ==
    IF \E i \in DOMAIN LowerChars : LowerChars[i] = c
    THEN UpperChars[CHOOSE i \in DOMAIN LowerChars : LowerChars[i] = c]
    ELSE c

\* str.capitalize()
Capitalize(str) ==
    IF str = "" THEN ""
    ELSE UpperChar(SubSeq(str, 1, 1)) \o LowerOf(SubSeq(str, 2, Len(str)))

\* any(hashtag.lower() in tag.lower() for tag in v.get('hashtags', []))
TagMatches(v, hashtag) ==
    \E i \in DOMAIN v.hashtags : Contains(Lower(v.hashtags[i]), Lower(hashtag))

\* TikTokService.get_videos_by_hashtag(hashtag, count); r.rnd holds the draws
\* of 2 * count rounds.  Nothing in the try block raises for a string hashtag.
Service_get_videos_by_hashtag(hashtag, count, api, r) ==
    LET videos == Service_get_api_trending_videos(count * 2, api, r)
        matches(v) == TagMatches(v, hashtag)
        filtered == SelectSeq(videos, matches)
    IN  IF filtered # <<>> THEN Take(filtered, count)
        ELSE Service_generate_fallback_videos(count, hashtag, r.rnd)

\* TikTokService.get_user_videos(username, count)
Service_get_user_videos(username, count, api, r) ==
    LET videos == Service_get_api_trending_videos(count, api, r)
    IN  [ i \in DOMAIN videos |->
            [videos[i] EXCEPT !.author.username = username,
                              !.author.nickname = Capitalize(username)] ]

\* TikTokAPIClient._process_video: <<>> for None.  A video whose info() raises
\* or gives no dict is the shape "nondict".
Client_process_video(video) ==
    IF \/ video.shape # "dict"
       \/ NestedRaises(video.video) \/ NestedRaises(video.author) \/ NestedRaises(video.stats)
       \/ video.challenges = "nondict"
    THEN <<>>
    ELSE << [ id          |-> IF video.id.t = "none" THEN "" ELSE video.id.s,
              videoUrl    |-> IF video.downloadAddr.t = "none" THEN VStr("")
                              ELSE video.downloadAddr,
              description |-> IF video.desc.t = "none" THEN VStr("") ELSE video.desc,
              hashtags    |-> [ k \in DOMAIN video.titles |->
                                  IF video.titles[k].t = "none" THEN VStr("")
                                  ELSE video.titles[k] ],
              isMock      |-> FALSE ] >>

RECURSIVE Client_collect(_, _, _)
\* async for video in ...: process, append if truthy, break at count.
\* [videos, broke]: broke says the loop left by its break.
Client_collect(items, count, videos) ==
    IF items = <<>> THEN [videos |-> videos, broke |-> FALSE]
    ELSE LET appended == videos \o Client_process_video(Head(items))
         IN  IF Len(appended) >= count THEN [videos |-> appended, broke |-> TRUE]
             ELSE Client_collect(Tail(items), count, appended)

\* TikTokAPIClient.get_trending_videos / get_videos_by_hashtag /
\* get_user_videos(count): the three differ in the iterator they ask the
\* library for.  ready says _api is set; api.kind is "error" (entering the
\* session or the first request raises), "items" (the iterator yields
\* api.items and ends) or "items_then_error" (it yields them and then raises).
Client_get_videos(ready, api, count) ==
    IF ~ready THEN <<>>
    ELSE IF api.kind = "error" THEN <<>>
    ELSE LET loop == Client_collect(api.items, count, <<>>)
         IN  IF api.kind = "items_then_error" /\ ~loop.broke THEN <<>>
             ELSE loop.videos

-----------------------------------------------------------------------------
(* mongodb.py: the gateway *)

\* A JSON array field of a document that may be absent
Absent == [present |-> FALSE, arr |-> <<>>]
Arr(a) == [present |-> TRUE, arr |-> a]

\* MongoDB.__init__: env says whether MONGODB_URI is set, whether the ping
\* succeeds, and how _create_indexes ends: "ok", "fail" (create_index raises and
\* _create_indexes absorbs it) or "truth_raises" (the test `not self.reels`
\* raises, as a pymongo Collection without truth value does, and __init__
\* absorbs it).  No exception leaves the constructor.
MongoDB_init(env) ==
    IF ~env.uri THEN [raised |-> FALSE, client |-> FALSE, outcome |-> "no_uri"]
    ELSE IF ~env.ping THEN [raised |-> FALSE, client |-> FALSE, outcome |-> "ping_fail"]
    ELSE IF env.index = "truth_raises"
         THEN [raised |-> FALSE, client |-> FALSE, outcome |-> "index_truth_raises"]
    ELSE [raised |-> FALSE, client |-> TRUE,
          outcome |-> IF env.index = "ok" THEN "connected" ELSE "connected_no_index"]

\* MongoDB.is_connected
is_connected(c) == c

\* MongoDB._create_indexes called on a constructed gateway: [raised, client].
\* Without a collection it returns at once; with one, the test
\* `not self.reels` raises where the driver's Collection has no truth value
\* (index = "truth_raises"), outside the try block; a failing create_index is
\* absorbed.  The call assigns none of the gateway's fields.
MongoDB_create_indexes(c, index) ==
    IF ~is_connected(c) THEN [raised |-> FALSE, client |-> c]
    ELSE [raised |-> index = "truth_raises", client |-> c]

\* "mock_id_" + str(os.urandom(4).hex())
MockId(hex) == "mock_id_" \o hex

\* The document insert_one stores for the body reel_data
NewDoc(body, oid, t1, t2) ==
    [ _id |-> oid, created_at |-> t1, updated_at |-> t2,
      likes |-> body.likes, comments |-> Absent,
      hashtags |-> body.hashtags, username |-> body.username ]

\* MongoDB.save_reel: [ret, reels, inserted].  A body that is no JSON object
\* makes the item assignment raise; fails says insert_one raises.
DB_save_reel(store, c, body, oid, t1, t2, fails, hex) ==
    IF ~is_connected(c) THEN [ret |-> MockId(hex), reels |-> store]
    ELSE IF body.kind # "object" \/ fails THEN [ret |-> MockId(hex), reels |-> store]
    ELSE [ret |-> oid, reels |-> Append(store, NewDoc(body, oid, t1, t2))]

\* A variant of $addToSet that appends the value in every case
AddToSetAppending(field, v) == Arr(Append(field.arr, v))

\* $addToSet: append the value unless the array holds it already
AddToSet(field, v) ==
    IF \E i \in DOMAIN field.arr : field.arr[i] = v THEN Arr(field.arr)
    ELSE Arr(Append(field.arr, v))

\* A variant of $push that puts the value first
PushFirst(field, v) == Arr(<<v>> \o field.arr)

\* $push
Push(field, v) == Arr(Append(field.arr, v))

\* The index of the document with this _id, 0 when there is none
MatchIdx(store, oid) ==
    IF \E i \in DOMAIN store : store[i]._id = oid
    THEN CHOOSE i \in DOMAIN store : store[i]._id = oid
    ELSE 0

\* update_one: the store after replacing document i (0: no match) by newdoc,
\* and modified_count, which counts a document only if the update changed it
UpdateOne(store, i, newdoc) ==
    IF i = 0 THEN [reels |-> store, modified_count |-> 0]
    ELSE [ reels |-> [store EXCEPT ![i] = newdoc],
           modified_count |-> IF newdoc # store[i] THEN 1 ELSE 0 ]

\* A variant of the update of like_reel that leaves the $set out
LikeUpdateUnstamped(doc, user_id, t) ==
    [doc EXCEPT !.likes = AddToSet(doc.likes, user_id)]

\* The update of like_reel: $addToSet likes, $set updated_at
LikeUpdate(doc, user_id, t) ==
    [doc EXCEPT !.likes = AddToSet(doc.likes, user_id), !.updated_at = t]

\* A variant of like_reel that returns true whenever update_one did not raise
DB_like_reel_acknowledged(store, c, reel_id, user_id, t, fails) ==
    IF ~is_connected(c) THEN [ret |-> TRUE, reels |-> store]
    ELSE IF ~IsOidStr(reel_id) \/ fails THEN [ret |-> FALSE, reels |-> store]
    ELSE LET i == MatchIdx(store, reel_id)
             result == UpdateOne(store, i,
                           IF i = 0 THEN <<>> ELSE LikeUpdate(store[i], user_id, t))
         IN  [ret |-> TRUE, reels |-> result.reels]

\* MongoDB.like_reel: [ret, reels]; fails says update_one raises
DB_like_reel(store, c, reel_id, user_id, t, fails) ==
    IF ~is_connected(c) THEN [ret |-> TRUE, reels |-> store]
    ELSE IF ~IsOidStr(reel_id) \/ fails THEN [ret |-> FALSE, reels |-> store]
    ELSE LET i == MatchIdx(store, reel_id)
             result == UpdateOne(store, i,
                           IF i = 0 THEN <<>> ELSE LikeUpdate(store[i], user_id, t))
         IN  [ret |-> result.modified_count > 0, reels |-> result.reels]

\* A variant of the update of add_comment that sets the array instead of pushing
CommentUpdateReplacing(doc, comment_data, t) ==
    [doc EXCEPT !.comments = Arr(<<comment_data>>), !.updated_at = t]

\* The update of add_comment: $push comments, $set updated_at
CommentUpdate(doc, comment_data, t) ==
    [doc EXCEPT !.comments = Push(doc.comments, comment_data), !.updated_at = t]

\* MongoDB.add_comment: [ret, reels]
DB_add_comment(store, c, reel_id, user_id, comment_text, coid, t1, t2, fails) ==
    IF ~is_connected(c) THEN [ret |-> TRUE, reels |-> store]
    ELSE IF ~IsOidStr(reel_id) \/ fails THEN [ret |-> FALSE, reels |-> store]
    ELSE LET comment_data == [ id |-> coid, user_id |-> user_id,
                               text |-> comment_text, timestamp |-> t1 ]
             i == MatchIdx(store, reel_id)
             result == UpdateOne(store, i,
                           IF i = 0 THEN <<>> ELSE CommentUpdate(store[i], comment_data, t2))
         IN  [ret |-> result.modified_count > 0, reels |-> result.reels]

RECURSIVE SortByCreatedDesc(_)
\* .sort('created_at', -1): newest first; documents of the same millisecond
\* keep their insertion order
SortByCreatedDesc(docs) ==
    IF docs = <<>> THEN <<>>
    ELSE LET top == CHOOSE i \in DOMAIN docs :
                        /\ \A j \in DOMAIN docs : docs[j].created_at <= docs[i].created_at
                        /\ \A j \in 1 .. (i - 1) : docs[j].created_at < docs[i].created_at
             rest == [ k \in 1 .. (Len(docs) - 1) |-> IF k < top THEN docs[k] ELSE docs[k + 1] ]
         IN  <<docs[top]>> \o SortByCreatedDesc(rest)

\* cursor.limit(n): n = 0 means no limit
CursorLimit(docs, n) == IF n = 0 THEN docs ELSE Take(docs, n)

\* The query of get_reels: hashtag and username are "" when not filtered on
\* (`if hashtag:`); the store compares the lower-cased argument with the
\* stored values as they are.
QueryMatches(doc, hashtag, username) ==
    /\ hashtag # "" =>
          \E i \in DOMAIN doc.hashtags.arr : doc.hashtags.arr[i] = Lower(hashtag)
    /\ username # "" => doc.username = VStr(Lower(username))

\* processed_reel of get_reels
ProcessedReel(doc) ==
    [ id |-> doc._id, likes |-> doc.likes.arr, comments |-> doc.comments.arr,
      hashtags |-> doc.hashtags.arr, createdAt |-> doc.created_at,
      description |-> VStr(""), isMock |-> FALSE ]

\* MongoDB.get_reels; fails says the find raises.  trending is what lines 94-95
\* and 130-131 compute when they are reached:
\* TikTokService().get_trending_videos(limit).
DB_get_reels(store, c, limit, skip, hashtag, username, fails, trending) ==
    IF ~is_connected(c) \/ fails THEN trending
    ELSE LET matching(doc) == QueryMatches(doc, hashtag, username)
             found == CursorLimit(Drop(SortByCreatedDesc(SelectSeq(store, matching)), skip),
                                  limit)
         IN  [ i \in DOMAIN found |-> ProcessedReel(found[i]) ]

\* [v for v in all_videos if search_term.lower() in v.get('description', '').lower()]:
\* [raises, hits].  .lower() raises on a description that is no string.
MockFilter(all_videos, search_term) ==
    LET needle == Lower(search_term)
        hit(v) == v.description.t = "str" /\ Contains(Lower(v.description.s), needle)
    IN  [ raises |-> \E i \in DOMAIN all_videos : all_videos[i].description.t # "str",
          hits   |-> SelectSeq(all_videos, hit) ]

\* The $text query of search_reels, as far as this model knows the text index:
\* a document is found when the term is, ignoring case, one of its hashtags or
\* its author's username.
TextMatches(doc, search_term) ==
    \/ \E i \in DOMAIN doc.hashtags.arr : Lower(doc.hashtags.arr[i]) = Lower(search_term)
    \/ doc.username.t = "str" /\ Lower(doc.username.s) = Lower(search_term)

\* MongoDB.search_reels: [raises, ret]; the processed records carry no isMock
\* key.  mock_hits is what lines 177-178 and 203-204 compute when they are
\* reached: MockFilter(TikTokService().get_trending_videos(50), search_term);
\* neither place is inside a try block that absorbs what the filter raises.
DB_search_reels(store, c, search_term, limit, fails, mock_hits) ==
    IF ~is_connected(c) \/ fails
    THEN [raises |-> mock_hits.raises, ret |-> Take(mock_hits.hits, limit)]
    ELSE LET matching(doc) == TextMatches(doc, search_term)
             found == CursorLimit(SelectSeq(store, matching), limit)
         IN  [ raises |-> FALSE,
               ret |-> [ i \in DOMAIN found |-> ProcessedReel(found[i]) ] ]

\* A variant of SumLikes that counts a user once per record
SumLikers(docs) ==
    Cardinality(UNION { { <<i, docs[i].likes.arr[j]>> : j \in DOMAIN docs[i].likes.arr } :
                          i \in DOMAIN docs })

RECURSIVE SumLikes(_)
\* the aggregate of get_reel_stats: $sum of $size of $ifNull(likes, [])
SumLikes(docs) ==
    IF docs = <<>> THEN 0 ELSE Len(Head(docs).likes.arr) + SumLikes(Tail(docs))

\* A quotient of Python's true division, kept as the pair it is computed from
Ratio(num, den) == [num |-> num, den |-> den]
Zero == Ratio(0, 1)

StatsOf(total_reels, total_likes, avg, statsMode) ==
    [ total_reels |-> total_reels, total_likes |-> total_likes,
      avg_likes_per_reel |-> avg, mode |-> statsMode ]

\* MongoDB.get_reel_stats; fails says count_documents or aggregate raises
DB_get_reel_stats(store, c, fails) ==
    IF ~is_connected(c) THEN StatsOf(0, 0, Zero, "mock_data")
    ELSE IF fails THEN StatsOf(0, 0, Zero, None)
    ELSE LET total_reels == Len(store)
             total_likes_count == SumLikes(store)
         IN  StatsOf(total_reels, total_likes_count,
                     IF total_reels > 0 THEN Ratio(total_likes_count, total_reels) ELSE Zero,
                     None)

-----------------------------------------------------------------------------
(* app.py: requests and responses *)

\* `if db:` -- a MongoDB object defines neither __bool__ nor __len__
Truthy(d) == d # "None"

\* The parsed JSON body of a POST: kind is "unparsable" (get_json raises),
\* "null" (None), "empty" ({}), "array" (a non-empty value that is no object)
\* or "object".  The other fields are the keys an object holds.
SaveBody(kind, likes, hashtags, username) ==
    [kind |-> kind, likes |-> likes, hashtags |-> hashtags, username |-> username]

SaveBodies ==
    { SaveBody(k, Absent, Absent, VNone) : k \in {"unparsable", "empty", "array"} }
    \cup { SaveBody("object", l, Absent, VNone) :
             l \in {Absent, Arr(<<"u1">>), Arr(<<"u1", "u1">>)} }
    \cup { SaveBody("object", Absent, Arr(<<"fun">>), VStr("Bob")),
           SaveBody("object", Absent, Arr(<<"Fun">>), VStr("bob")) }

UserBody(kind, user_id, comment) == [kind |-> kind, user_id |-> user_id, comment |-> comment]

UserIdValues == {VStr("")} \cup { VStr(u) : u \in Users }

LikeBodies ==
    { UserBody(k, VNone, VNone) : k \in {"empty", "array"} }
    \cup { UserBody("object", u, VNone) : u \in UserIdValues }

CommentBodies ==
    { UserBody(k, VNone, VNone) : k \in {"empty", "array"} }
    \cup { UserBody("object", u, t) :
             u \in {VNone, VStr("u1")}, t \in {VNone, VStr("nice")} }

\* <reel_id> of the URL
ReelIds == { OidStr(k) : k \in 1 .. MaxOid } \cup {"mock_id"}

\* query arguments: None when the argument is not given
LimitArgs == {None, "abc"} \cup { ToString(n) : n \in 0 .. MaxLimit }
SkipArgs == {None, "1"}
HashtagArgs == {None, "Fun"}
UsernameArgs == {None, "Bob"}
SearchTerms == {"", "Awesome", "cats"}

\* int(request.args.get(name, default))
ArgRaises(arg) == arg # None /\ ~IsInt(arg)
ArgInt(arg, default) == IF arg = None THEN default ELSE ParseInt(arg)

\* request.args.get(name): "" stands for None where only truth is tested
ArgStr(arg) == IF arg = None THEN "" ELSE arg

\* The raw videos the third-party API hands out
ApiVideos ==
    { RawVideo("dict", VStr("v1"), VStr("Funny cats"), "dict",
               <<VNone, VNone, VNone, VNone>>, "dict", "dict", "absent", <<>>),
      RawVideo("dict", VStr("v1"), VInt, "dict",
               <<VNone, VNone, VNone, VNone>>, "dict", "dict", "absent", <<>>),
      RawVideo("nondict", VNone, VNone, "absent",
               <<VNone, VNone, VNone, VNone>>, "absent", "absent", "absent", <<>>) }

ApiItemLists == UNION { [1 .. n -> ApiVideos] : n \in 1 .. MaxItems }

ApiOutcomes ==
    { ApiOutcome(k, <<>>) : k \in {"error", "non200", "no_items"} }
    \cup { ApiOutcome("items", l) : l \in ApiItemLists }

\* The randomness the handlers' calls of get_trending_videos are run with
\* (a response shows none of the random fields, so one value stands for all)
AppRandomness(count) ==
    { Randomness([i \in 1 .. Max(count, 0) |-> [url |-> (i % 3) + 1, lo |-> TRUE]],
                 [url |-> 1, lo |-> TRUE], 10000) }

\* What a response shows of a record of its list
ItemView(v) == [id |-> v.id, isMock |-> v.isMock]
ItemViews(videos) == [i \in DOMAIN videos |-> ItemView(videos[i])]

NoStats == StatsOf(0, 0, Zero, "")

\* A response: the HTTP status and the JSON keys the handlers set ("" and <<>>
\* for a key the response does not hold; kind tells which keys it holds).
Response(kind, status, success, error, source, saved_to, id, items, stats) ==
    [ kind |-> kind, status |-> status, success |-> success, error |-> error,
      source |-> source, saved_to |-> saved_to, id |-> id,
      reels |-> items, count |-> Len(items), stats |-> stats ]

\* jsonify({"success": False, "error": ...}), 400 / 500
ErrorResponse(status, error) ==
    Response("error", status, FALSE, error, "", "", "", <<>>, NoStats)

\* request.args of the two GET handlers, as sent (None for an absent one)
Query(limitArg, skipArg, hashtag, username, q) ==
    [limit |-> limitArg, skip |-> skipArg, hashtag |-> hashtag, username |-> username, q |-> q]
NoQuery == Query(None, None, None, None, None)

\* The request handled last: the handler, its arguments, whether the store
\* call raised, and what the third-party API did ("unused" when the handler
\* did not reach it).  body is the kind of JSON body, query the query string.
Request(op, id, user, n, fails, api) ==
    [op |-> op, id |-> id, user |-> user, n |-> n, fails |-> fails, api |-> api,
     body |-> "", comment |-> "", query |-> NoQuery]
WithBody(rq, kind) == [rq EXCEPT !.body = kind]
WithComment(rq, text) == [rq EXCEPT !.comment = text]
WithQuery(rq, query) == [rq EXCEPT !.query = query]

NoRequest == Request("none", "", "", 0, FALSE, "")
NoResponse == Response("none", 0, FALSE, "", "", "", "", <<>>, NoStats)

\* jsonify({"success": ..., "id" / "action": ..., "saved_to": ...})
WriteResponse(kind, success, saved_to, id) ==
    Response(kind, 200, success, "", "", saved_to, id, <<>>, NoStats)

\* jsonify({"success": True, "reels": reels, "count": len(reels), "source": source})
ListResponse(videos, source) ==
    Response("list", 200, TRUE, "", source, "", "", ItemViews(videos), NoStats)

\* jsonify({"success": True, "stats": stats, "source": source})
StatsResponse(stats, source) ==
    Response("stats", 200, TRUE, "", source, "", "", <<>>, stats)

\* str(e) of the exception a handler's except branch reports
Unexpected == "unexpected error"

\* The readings datetime.now() can give after a reading of t0
Readings(t0) == t0 .. Min(t0 + 1, MaxClock)

Respond(rq, rs) == req' = rq /\ resp' = rs

-----------------------------------------------------------------------------
(* app.py: the handlers *)

\* POST /reels/save
save_reel ==
    \E body \in SaveBodies, hex \in RandHex :
    \E fails \in (IF is_connected(client) THEN BOOLEAN ELSE {FALSE}) :
    \E t1 \in Readings(clock) : \E t2 \in Readings(t1) :
        LET rq == WithBody(Request("save", "", "", 0, fails, ""), body.kind)
            stamps == Truthy(db) /\ is_connected(client) /\ body.kind \in {"array", "object"}
            inserts == Truthy(db) /\ is_connected(client) /\ body.kind = "object"
            oid == OidStr(nextOid + 1)
            r == DB_save_reel(reels, client, body, oid, t1, t2, fails, hex)
        IN  /\ inserts => (nextOid < MaxOid /\ Len(reels) < MaxReels)
            /\ ~stamps => (t1 = clock /\ t2 = clock)
            /\ ~(Truthy(db) /\ body.kind \in {"array", "object"}
                    /\ (~inserts \/ fails)) => hex = CHOOSE h \in RandHex : TRUE
            /\ ~(inserts /\ ~fails) => t2 = t1
            /\ IF body.kind = "unparsable"
               THEN Respond(rq, ErrorResponse(500, Unexpected)) /\ UNCHANGED reels
               ELSE IF body.kind \in {"null", "empty"}
               THEN Respond(rq, ErrorResponse(400, "No data provided")) /\ UNCHANGED reels
               ELSE IF Truthy(db)
               THEN Respond(rq, WriteResponse("save", TRUE, "database", r.ret))
                    /\ reels' = r.reels
               ELSE Respond(rq, WriteResponse("save", TRUE, "mock_data", "mock_id"))
                    /\ UNCHANGED reels
            /\ clock' = t2
            /\ nextOid' = IF inserts THEN nextOid + 1 ELSE nextOid
            /\ UNCHANGED <<client, db, gen, norm, threads, fetch, boot>>

\* POST /reels/<reel_id>/like
like_reel ==
    \E reel_id \in ReelIds, user_data \in LikeBodies :
    \E fails \in (IF is_connected(client) THEN BOOLEAN ELSE {FALSE}) :
    \E t \in Readings(clock) :
        LET user_id == user_data.user_id
            rq == WithBody(Request("like", reel_id, user_id.s, 0, fails, ""), user_data.kind)
            calls == user_data.kind = "object" /\ user_id.t = "str" /\ user_id.s # ""
                        /\ Truthy(db)
            r == DB_like_reel(reels, client, reel_id, user_id.s, t, fails)
        IN  /\ ~(calls /\ is_connected(client)) => (t = clock /\ ~fails)
            /\ IF user_data.kind \in {"unparsable", "array"}
               THEN Respond(rq, ErrorResponse(500, Unexpected)) /\ UNCHANGED reels
               ELSE IF user_data.kind \in {"null", "empty"} \/ user_id.t = "none" \/ user_id.s = ""
               THEN Respond(rq, ErrorResponse(400, "User ID required")) /\ UNCHANGED reels
               ELSE IF Truthy(db)
               THEN Respond(rq, WriteResponse("like", r.ret, "database", ""))
                    /\ reels' = r.reels
               ELSE Respond(rq, WriteResponse("like", TRUE, "mock_data", ""))
                    /\ UNCHANGED reels
            /\ clock' = t
            /\ UNCHANGED <<client, db, nextOid, gen, norm, threads, fetch, boot>>

\* POST /reels/<reel_id>/comment
add_comment ==
    \E reel_id \in ReelIds, comment_data \in CommentBodies :
    \E fails \in (IF is_connected(client) THEN BOOLEAN ELSE {FALSE}) :
    \E t1 \in Readings(clock) : \E t2 \in Readings(t1) :
        LET user_id == comment_data.user_id
            comment == comment_data.comment
            rq == WithComment(WithBody(Request("comment", reel_id, user_id.s, 0, fails, ""),
                                       comment_data.kind), comment.s)
            calls == comment_data.kind = "object"
                        /\ user_id.t = "str" /\ user_id.s # ""
                        /\ comment.t = "str" /\ comment.s # ""
                        /\ Truthy(db)
            generates == calls /\ is_connected(client)
            coid == OidStr(nextOid + 1)
            r == DB_add_comment(reels, client, reel_id, user_id.s, comment.s,
                                coid, t1, t2, fails)
        IN  /\ generates => nextOid < MaxOid
            /\ ~generates => (t1 = clock /\ t2 = clock /\ ~fails)
            /\ IF comment_data.kind \in {"unparsable", "array"}
               THEN Respond(rq, ErrorResponse(500, Unexpected)) /\ UNCHANGED reels
               ELSE IF \/ comment_data.kind \in {"null", "empty"}
                       \/ user_id.t = "none" \/ user_id.s = ""
                       \/ comment.t = "none" \/ comment.s = ""
               THEN Respond(rq, ErrorResponse(400, "User ID and comment required"))
                    /\ UNCHANGED reels
               ELSE IF Truthy(db)
               THEN Respond(rq, WriteResponse("comment", r.ret, "database", ""))
                    /\ reels' = r.reels
               ELSE Respond(rq, WriteResponse("comment", TRUE, "mock_data", ""))
                    /\ UNCHANGED reels
            /\ clock' = t2
            /\ nextOid' = IF generates THEN nextOid + 1 ELSE nextOid
            /\ UNCHANGED <<client, db, gen, norm, threads, fetch, boot>>

\* The third-party outcomes and the randomness a call is run with: all of
\* them when the call reaches get_trending_videos, one when it does not.
ApiChoices(reached) ==
    IF reached THEN ApiOutcomes ELSE {ApiOutcome("unused", <<>>)}
RandomChoices(reached, count) ==
    IF reached THEN AppRandomness(count)
    ELSE {CHOOSE r \in AppRandomness(0) : TRUE}

\* The limits a list request can ask for
Limits == (0 .. MaxLimit) \cup {DefaultLimit}

\* What lines 94-95 and 130-131 of mongodb.py compute for each limit and
\* third-party outcome (tabulated once)
TrendingVideos ==
    [ limit \in Limits, api \in ApiOutcomes |->
        [ r \in AppRandomness(limit) |-> Service_get_trending_videos(limit, api, r) ] ]

\* GET /reels
get_reels ==
    \E limitArg \in LimitArgs :
    \E fails \in (IF is_connected(client) THEN BOOLEAN ELSE {FALSE}) :
        LET limit == IF ArgRaises(limitArg) THEN 0 ELSE ArgInt(limitArg, DefaultLimit)
            fallback == ~ArgRaises(limitArg)
                            /\ (~Truthy(db) \/ ~is_connected(client) \/ fails)
        IN  \E api \in ApiChoices(fallback), r \in RandomChoices(fallback, limit) :
            LET trending == IF fallback THEN TrendingVideos[limit, api][r] ELSE <<>>
            IN  \E skipArg \in SkipArgs, hashtag \in HashtagArgs, username \in UsernameArgs :
                LET raises == ArgRaises(limitArg) \/ ArgRaises(skipArg)
                    skip == IF ArgRaises(skipArg) THEN 0 ELSE ArgInt(skipArg, 0)
                    reached == fallback /\ ~raises
                    rq == WithQuery(Request("list", "", "", limit, fails,
                                            IF reached THEN api.kind ELSE "unused"),
                                    Query(limitArg, skipArg, hashtag, username, None))
                IN  /\ raises => (~fails /\ api = CHOOSE a \in ApiChoices(fallback) : TRUE)
                    /\ IF raises
                       THEN Respond(rq, ErrorResponse(500, Unexpected))
                       ELSE IF Truthy(db)
                       THEN Respond(rq, ListResponse(
                                DB_get_reels(reels, client, limit, skip, ArgStr(hashtag),
                                             ArgStr(username), fails, trending), "database"))
                       ELSE Respond(rq, ListResponse(trending, "mock_data"))
                    /\ UNCHANGED <<client, db, reels, clock, nextOid, gen, norm, threads, fetch, boot>>

\* What lines 177-178 and 203-204 of mongodb.py compute for each third-party
\* outcome, randomness and search term (tabulated once)
SearchHits ==
    [ api \in ApiOutcomes, r \in AppRandomness(SearchPool), search_term \in SearchTerms |->
        MockFilter(Service_get_trending_videos(SearchPool, api, r), search_term) ]

\* GET /reels/search
search_reels ==
    \E fails \in (IF is_connected(client) THEN BOOLEAN ELSE {FALSE}) :
        LET fallback == ~Truthy(db) \/ ~is_connected(client) \/ fails
        IN  \E api \in ApiChoices(fallback), r \in RandomChoices(fallback, SearchPool) :
            \E search_term \in SearchTerms :
                LET mock_hits == SearchHits[api, r, search_term]
                IN  \E limitArg \in LimitArgs :
                    LET raises == ArgRaises(limitArg)
                        limit == IF raises THEN 0 ELSE ArgInt(limitArg, DefaultLimit)
                        rejected == ~raises /\ search_term = ""
                        reached == fallback /\ ~raises /\ ~rejected
                        r_db == DB_search_reels(reels, client, search_term, limit,
                                                fails, mock_hits)
                        rq == WithQuery(Request("search", "", "", limit, fails,
                                                IF reached THEN api.kind ELSE "unused"),
                                        Query(limitArg, None, None, None, search_term))
                    IN  /\ (raises \/ rejected) =>
                              (~fails /\ api = CHOOSE a \in ApiChoices(fallback) : TRUE)
                        /\ IF raises
                           THEN Respond(rq, ErrorResponse(500, Unexpected))
                           ELSE IF rejected
                           THEN Respond(rq, ErrorResponse(400, "Search term required"))
                           ELSE IF Truthy(db)
                           THEN IF r_db.raises
                                THEN Respond(rq, ErrorResponse(500, Unexpected))
                                ELSE Respond(rq, ListResponse(r_db.ret, "database"))
                           ELSE IF mock_hits.raises
                           THEN Respond(rq, ErrorResponse(500, Unexpected))
                           ELSE Respond(rq, ListResponse(Take(mock_hits.hits, limit),
                                                         "mock_data"))
                        /\ UNCHANGED <<client, db, reels, clock, nextOid, gen, norm, threads, fetch, boot>>

\* GET /stats
get_stats ==
    \E fails \in (IF is_connected(client) THEN BOOLEAN ELSE {FALSE}) :
        LET rq == Request("stats", "", "", 0, fails, "")
        IN  /\ IF Truthy(db)
               THEN Respond(rq, StatsResponse(DB_get_reel_stats(reels, client, fails),
                                              "database"))
               ELSE Respond(rq, StatsResponse(StatsOf(0, 0, Zero, "mock_data"), "mock_data"))
            /\ UNCHANGED <<client, db, reels, clock, nextOid, gen, norm, threads, fetch, boot>>

\* jsonify({"message": ..., "status": "active", "timestamp": ..., "database": ...})
HomeResponse(timestamp, database_status) ==
    [ kind |-> "home", status |-> 200, timestamp |-> timestamp,
      database |-> "MongoDB " \o database_status ]

\* jsonify({"status": "healthy", "timestamp": ..., "database_connected": ...,
\*          "database_stats": ...})
HealthResponse(timestamp, database_connected, stats) ==
    [ kind |-> "health", status |-> 200, timestamp |-> timestamp,
      database_connected |-> database_connected, database_stats |-> stats ]

\* GET /
home ==
    \E t \in Readings(clock) :
        LET rq == Request("home", "", "", 0, FALSE, "")
            database_status == IF Truthy(db) /\ client THEN "connected"
                               ELSE "disconnected (using mock data)"
        IN  /\ Respond(rq, HomeResponse(t, database_status))
            /\ clock' = t
            /\ UNCHANGED <<client, db, reels, nextOid, gen, norm, threads, fetch, boot>>

\* GET /health: the handler has no try block; get_reel_stats absorbs the
\* failures of its own store calls
health_check ==
    \E fails \in (IF is_connected(client) THEN BOOLEAN ELSE {FALSE}) :
    \E t \in Readings(clock) :
        LET rq == Request("health", "", "", 0, fails, "")
            stats == IF Truthy(db) THEN DB_get_reel_stats(reels, client, fails)
                     ELSE StatsOf(0, 0, Zero, "mock_data")
        IN  /\ Respond(rq, HealthResponse(t, db # "None", stats))
            /\ clock' = t
            /\ UNCHANGED <<client, db, reels, nextOid, gen, norm, threads, fetch, boot>>

-----------------------------------------------------------------------------
(* The service: the state after start-up, and one request after another *)

Envs == [uri : BOOLEAN, ping : BOOLEAN, index : {"ok", "fail", "truth_raises"}]

NoGen == [generator |-> "", count |-> 0, context |-> "", out |-> <<>>, done |-> FALSE]
NoNorm == [video_list |-> <<>>, i |-> 0, processed_video |-> <<>>, processed |-> <<>>]

\* No fetch operation called
NoFetch ==
    [ layer |-> "", op |-> "", arg |-> "", count |-> 0, ready |-> FALSE,
      api |-> ApiOutcome("unused", <<>>), out |-> <<>>, done |-> FALSE ]

\* The request threads of the server (app.run serves each request in a thread
\* of its own), and a thread that handles no request
Threads == 1 .. MaxThreads
IdleThread ==
    [ pc |-> "idle", op |-> "", id |-> "", user |-> "", text |-> "", coid |-> "",
      t1 |-> 0, t2 |-> 0, fails |-> FALSE, ret |-> FALSE ]
NoThreads == [ th \in Threads |-> IdleThread ]

\* No construction on record
NoBoot == [env |-> [uri |-> FALSE, ping |-> FALSE, index |-> ""], outcome |-> "",
           calls |-> 0, last |-> "", raised |-> FALSE]

\* app.py, lines 11-20: db = MongoDB(), or None if the constructor raises
Init ==
    \E env \in Envs :
        LET m == MongoDB_init(env)
        IN  /\ client = m.client
            /\ db = IF m.raised THEN "None" ELSE "MongoDB"
            /\ reels = <<>>
            /\ clock = 0
            /\ nextOid = 0
            /\ req = NoRequest
            /\ resp = NoResponse
            /\ gen = NoGen
            /\ norm = NoNorm
            /\ threads = NoThreads /\ fetch = NoFetch /\ boot = NoBoot

Next ==
    \/ save_reel
    \/ get_reels
    \/ like_reel
    \/ add_comment
    \/ search_reels
    \/ get_stats

Spec == Init /\ [][Next]_vars

\* The clients that only write and ask for the statistics
NextWrites ==
    \/ save_reel
    \/ like_reel
    \/ add_comment
    \/ get_stats

SpecWrites == Init /\ [][NextWrites]_vars

\* The clients that only read
NextReads ==
    \/ get_reels
    \/ search_reels
    \/ get_stats

SpecReads == Init /\ [][NextReads]_vars

\* The clients that save records and list them
NextList ==
    \/ save_reel
    \/ get_reels

SpecList == Init /\ [][NextList]_vars

\* The service started without a usable database
InitDisconnected == Init /\ ~is_connected(client)

SpecDisconnected == InitDisconnected /\ [][Next]_vars

\* The service from its construction on, the environment of the construction
\* kept on record: further calls of _create_indexes, and the requests that
\* report the connectivity
InitStart ==
    \E env \in Envs :
        LET m == MongoDB_init(env)
        IN  /\ client = m.client
            /\ db = IF m.raised THEN "None" ELSE "MongoDB"
            /\ reels = <<>>
            /\ clock = 0
            /\ nextOid = 0
            /\ req = NoRequest
            /\ resp = NoResponse
            /\ gen = NoGen
            /\ norm = NoNorm
            /\ threads = NoThreads /\ fetch = NoFetch
            /\ boot = [NoBoot EXCEPT !.env = env, !.outcome = m.outcome]

\* MongoDB._create_indexes, called again on the constructed gateway: whether a
\* Collection has a truth value is fixed by the installed driver, whether
\* create_index succeeds is not
create_indexes ==
    /\ boot.calls < MaxCalls
    /\ \E index \in (IF boot.env.index = "truth_raises" THEN {"truth_raises"}
                     ELSE {"ok", "fail"}) :
          LET r == MongoDB_create_indexes(client, index)
          IN  /\ client' = r.client
              /\ boot' = [boot EXCEPT !.calls = @ + 1,
                                      !.last = IF is_connected(client) THEN index ELSE "skipped",
                                      !.raised = r.raised]
    /\ UNCHANGED <<db, reels, clock, nextOid, req, resp, gen, norm, threads, fetch>>

NextStart ==
    \/ create_indexes
    \/ home
    \/ health_check
    \/ get_stats

SpecStart == InitStart /\ [][NextStart]_vars

\* The service started on a store an earlier run has written: one record,
\* liked by one user, with or without a comment
InitGrow ==
    /\ client = TRUE /\ db = "MongoDB"
    /\ \E comments \in { Absent,
                         Arr(<< [ id |-> OidStr(0), user_id |-> "u2",
                                  text |-> "first", timestamp |-> 0 ] >>) } :
          reels = << [ NewDoc(SaveBody("object", Arr(<<"u1">>), Absent, VNone),
                              OidStr(1), 0, 0)
                       EXCEPT !.comments = comments ] >>
    /\ clock = 0 /\ nextOid = 1
    /\ req = NoRequest /\ resp = NoResponse /\ gen = NoGen /\ norm = NoNorm
    /\ threads = NoThreads /\ fetch = NoFetch /\ boot = NoBoot

SpecGrow == InitGrow /\ [][NextWrites]_vars

-----------------------------------------------------------------------------
(* Like and comment requests handled at the same time on a connected store   *)
(* that holds one record.  A thread evaluates the arguments of update_one    *)
(* (ObjectId(), datetime.now()), the store then executes the update as one   *)
(* atomic step, and the handler answers.                                     *)

\* The record saved before the requests arrive
SavedLikes == {Absent, Arr(<<"u1">>)}

InitConcurrent ==
    /\ client = TRUE /\ db = "MongoDB"
    /\ \E likes \in SavedLikes :
          reels = << NewDoc(SaveBody("object", likes, Absent, VNone), OidStr(1), 0, 0) >>
    /\ clock = 0 /\ nextOid = 1
    /\ req = NoRequest /\ resp = NoResponse /\ gen = NoGen /\ norm = NoNorm
    /\ threads = NoThreads /\ fetch = NoFetch /\ boot = NoBoot

\* app.py like_reel / add_comment up to the call of update_one, for a
\* well-formed body: mongodb.py lines 139-143 and 155-167 build the arguments
begin_update(th) ==
    /\ threads[th].pc = "idle"
    /\ \E op \in {"like", "comment"}, reel_id \in ReelIds, user_id \in Users :
       \E t1 \in Readings(clock) : \E t2 \in Readings(t1) :
          /\ op = "like" => t2 = t1
          /\ op = "comment" => nextOid < MaxOid + MaxThreads
          /\ threads' = [threads EXCEPT ![th] =
                [ pc |-> "called", op |-> op, id |-> reel_id, user |-> user_id,
                  text |-> IF op = "comment" THEN "nice" ELSE "",
                  coid |-> IF op = "comment" THEN OidStr(nextOid + 1) ELSE "",
                  t1 |-> t1, t2 |-> t2, fails |-> FALSE, ret |-> FALSE ]]
          /\ clock' = t2
          /\ nextOid' = IF op = "comment" THEN nextOid + 1 ELSE nextOid
    /\ UNCHANGED <<client, db, reels, req, resp, gen, norm, fetch, boot>>

\* self.reels.update_one(...): the store executes one thread's update
update_one(th) ==
    /\ threads[th].pc = "called"
    /\ \E fails \in BOOLEAN :
          LET c == threads[th]
              r == IF c.op = "like"
                   THEN DB_like_reel(reels, client, c.id, c.user, c.t1, fails)
                   ELSE DB_add_comment(reels, client, c.id, c.user, c.text, c.coid,
                                       c.t1, c.t2, fails)
          IN  /\ reels' = r.reels
              /\ threads' = [threads EXCEPT ![th] =
                    [c EXCEPT !.pc = "returned", !.fails = fails, !.ret = r.ret]]
    /\ UNCHANGED <<client, db, clock, nextOid, req, resp, gen, norm, fetch, boot>>

\* return jsonify({"success": success, "action": ..., "saved_to": "database"})
end_update(th) ==
    /\ threads[th].pc = "returned"
    /\ LET c == threads[th]
       IN  Respond(WithComment(WithBody(Request(c.op, c.id, c.user, 0, c.fails, ""),
                                        "object"), c.text),
                   WriteResponse(c.op, c.ret, "database", ""))
    /\ threads' = [threads EXCEPT ![th].pc = "done"]
    /\ UNCHANGED <<client, db, reels, clock, nextOid, gen, norm, fetch, boot>>

NextConcurrent ==
    \E th \in Threads :
        \/ begin_update(th)
        \/ update_one(th)
        \/ end_update(th)

SpecConcurrent == InitConcurrent /\ [][NextConcurrent]_vars

-----------------------------------------------------------------------------
(* The fetch operations alone: a call with some count, tag or user name and  *)
(* some outcome of the third-party call                                      *)

FetchOps == {"trending", "hashtag", "user"}
FetchArgs(op) ==
    IF op = "hashtag" THEN {"viral", "dance"}
    ELSE IF op = "user" THEN {"bob"}
    ELSE {""}

\* What the library's iterator can do
ClientOutcomes ==
    { ApiOutcome("error", <<>>) }
    \cup { ApiOutcome(k, l) : k \in {"items", "items_then_error"},
                              l \in {<<>>} \cup ApiItemLists }

InitFetch ==
    /\ client = FALSE /\ db = "MongoDB" /\ reels = <<>> /\ clock = 0 /\ nextOid = 0
    /\ req = NoRequest /\ resp = NoResponse /\ gen = NoGen /\ norm = NoNorm
    /\ threads = NoThreads /\ boot = NoBoot
    /\ \E op \in FetchOps, count \in 0 .. MaxCount :
       \E arg \in FetchArgs(op) :
          \/ \E ready \in BOOLEAN, api \in ClientOutcomes :
                fetch = [NoFetch EXCEPT !.layer = "client", !.op = op, !.arg = arg,
                                        !.count = count, !.ready = ready, !.api = api]
          \/ \E api \in ApiOutcomes :
                fetch = [NoFetch EXCEPT !.layer = "service", !.op = op, !.arg = arg,
                                        !.count = count, !.api = api]

\* TikTokSyncClient.get_trending_videos / get_videos_by_hashtag / get_user_videos
client_fetch ==
    /\ fetch.layer = "client" /\ ~fetch.done
    /\ fetch' = [fetch EXCEPT !.done = TRUE,
                    !.out = Client_get_videos(fetch.ready, fetch.api, fetch.count)]
    /\ UNCHANGED <<client, db, reels, clock, nextOid, req, resp, gen, norm, threads, boot>>

\* TikTokService.get_trending_videos / get_videos_by_hashtag / get_user_videos
service_fetch ==
    /\ fetch.layer = "service" /\ ~fetch.done
    /\ \E r \in AppRandomness(2 * fetch.count) :
          fetch' = [fetch EXCEPT !.done = TRUE,
                      !.out = IF fetch.op = "trending"
                              THEN Service_get_trending_videos(fetch.count, fetch.api, r)
                              ELSE IF fetch.op = "hashtag"
                              THEN Service_get_videos_by_hashtag(fetch.arg, fetch.count,
                                                                 fetch.api, r)
                              ELSE Service_get_user_videos(fetch.arg, fetch.count,
                                                           fetch.api, r)]
    /\ UNCHANGED <<client, db, reels, clock, nextOid, req, resp, gen, norm, threads, boot>>

NextFetch ==
    \/ client_fetch
    \/ service_fetch

SpecFetch == InitFetch /\ [][NextFetch]_vars

-----------------------------------------------------------------------------
(* The mock generators alone: a call with some count and context label *)

Contexts == {"trending", "dance", "user_1"}

InitMock ==
    /\ client = FALSE /\ db = "MongoDB" /\ reels = <<>> /\ clock = 0 /\ nextOid = 0
    /\ req = NoRequest /\ resp = NoResponse /\ norm = NoNorm /\ threads = NoThreads /\ fetch = NoFetch /\ boot = NoBoot
    /\ \E g \in {"service", "scraper"}, count \in 0 .. MaxCount, context \in Contexts :
          gen = [generator |-> g, count |-> count, context |-> context,
                 out |-> <<>>, done |-> FALSE]

\* TikTokService()._generate_fallback_videos(count, context)
service_generate ==
    /\ gen.generator = "service" /\ ~gen.done
    /\ \E rnd \in RndAll(ServiceUrls, gen.count) :
          gen' = [gen EXCEPT !.done = TRUE,
                    !.out = Service_generate_fallback_videos(gen.count, gen.context, rnd)]
    /\ UNCHANGED <<client, db, reels, clock, nextOid, req, resp, norm, threads, fetch, boot>>

\* TikTokScraper()._generate_fallback_videos(count, context)
scraper_generate ==
    /\ gen.generator = "scraper" /\ ~gen.done
    /\ \E rnd \in RndAll(ScraperUrls, gen.count) :
          gen' = [gen EXCEPT !.done = TRUE,
                    !.out = Scraper_generate_fallback_videos(gen.count, gen.context, rnd)]
    /\ UNCHANGED <<client, db, reels, clock, nextOid, req, resp, norm, threads, fetch, boot>>

NextMock ==
    \/ service_generate
    \/ scraper_generate

SpecMock == InitMock /\ [][NextMock]_vars
-----------------------------------------------------------------------------
(* The normalizer alone: _process_api_videos over a list of raw payloads *)

DownloadAddrs ==
    {VNone, VInt, VStr(""), VStr("ftp://cdn/d.mp4"), VStr("http://cdn/d.mp4")}
PlayAddrs == {VNone, VStr("https://cdn/p.mp4")}
VideoUrls == {VNone, VStr("http://cdn/v.mp4")}
Urls == {VNone, VStr("https://cdn/u.mp4")}

NoUrls == <<VNone, VNone, VNone, VNone>>
PlayOnly == <<VNone, VStr("https://cdn/p.mp4"), VNone, VNone>>
OuterOnly == <<VStr("http://cdn/d.mp4"), VNone, VStr("http://cdn/v.mp4"), VNone>>

\* A well-formed payload with the given candidates
Plain(urls) ==
    RawVideo("dict", VStr("v1"), VStr("clip"), "dict", urls, "dict", "dict",
             "list", <<VStr("a")>>)

NormVideos ==
    { Plain(<<d, p, v, u>>) :
        d \in DownloadAddrs, p \in PlayAddrs, v \in VideoUrls, u \in Urls }
    \cup { Plain(<<VNone, VNone, VStr("cdn/v.mp4"), VNone>>),
           Plain(<<VNone, VNone, VInt, VStr("https://cdn/u.mp4")>>),
           [Plain(PlayOnly) EXCEPT !.shape = "nondict"],
           [Plain(OuterOnly) EXCEPT !.video = "absent"],
           [Plain(OuterOnly) EXCEPT !.video = "nondict"],
           [Plain(NoUrls) EXCEPT !.video = "absent"],
           [Plain(PlayOnly) EXCEPT !.id = VNone, !.desc = VNone],
           [Plain(PlayOnly) EXCEPT !.author = "nondict"],
           [Plain(PlayOnly) EXCEPT !.stats = "nondict"],
           [Plain(PlayOnly) EXCEPT !.challenges = "absent", !.titles = <<>>],
           [Plain(PlayOnly) EXCEPT !.challenges = "nondict", !.titles = <<>>],
           [Plain(PlayOnly) EXCEPT !.titles = <<VStr("a"), VNone>>],
           [Plain(PlayOnly) EXCEPT
                !.titles = <<VStr("a"), VStr("b"), VStr("c"), VStr("d")>>] }

RandIds == {10000, 99999}

InitNorm ==
    /\ client = FALSE /\ db = "MongoDB" /\ reels = <<>> /\ clock = 0 /\ nextOid = 0
    /\ req = NoRequest /\ resp = NoResponse /\ gen = NoGen /\ threads = NoThreads /\ fetch = NoFetch /\ boot = NoBoot
    /\ \E n \in 0 .. MaxVideos : \E video_list \in [1 .. n -> NormVideos] :
          norm = [NoNorm EXCEPT !.video_list = video_list]

\* TikTokScraper._process_api_videos: one round of the loop over video_list
process_api_videos ==
    /\ norm.i < Len(norm.video_list)
    /\ LET video == norm.video_list[norm.i + 1]
       IN  \E rid \in RandIds :
             LET processed_video == Scraper_process_video_data(video, rid)
             IN  /\ video.id.t # "none" => rid = 10000
                 /\ norm' = [norm EXCEPT !.i = norm.i + 1,
                                !.processed_video = processed_video,
                                !.processed = norm.processed \o processed_video]
    /\ UNCHANGED <<client, db, reels, clock, nextOid, req, resp, gen, threads, fetch, boot>>

NextNorm == process_api_videos

SpecNorm == InitNorm /\ [][NextNorm]_vars

-----------------------------------------------------------------------------
(* The claims about the service's answers *)

\* The request handled last got a list, search or statistics answer
ReadAnswered == req.op \in {"list", "search", "stats"} /\ resp.status = 200

\* The request handled last passed validation and got a write answer
WriteAnswered == resp.kind \in {"save", "like", "comment"}

\* C1: whenever the gateway is disconnected, every GET /reels, GET /reels/search
\* with a non-empty q and GET /stats that is answered carries the source
\* "mock_data".
C1_DisconnectedReadsCarryMockData ==
    (~is_connected(client) /\ ReadAnswered) => resp.source = "mock_data"

\* C2: every answered list, search or statistics request carries the source
\* "database" or "mock_data", and when the gateway is connected but the store
\* call of a list or search raises, the source is "mock_data".
C2_DatabaseTagOnlyForStoreData ==
    ReadAnswered =>
        /\ resp.source \in {"database", "mock_data"}
        /\ (is_connected(client) /\ req.fails /\ req.op \in {"list", "search"})
              => resp.source = "mock_data"

\* The request rq, answered by rs, is a like the gateway ran on the store
LikeCall(rq, rs) == rq.op = "like" /\ rs.kind = "like" /\ ~rq.fails

Stored(store, id) == \E i \in DOMAIN store : store[i]._id = id

\* The users in the likes of the record id
LikeSet(store, id) ==
    UNION { { store[i].likes.arr[j] : j \in DOMAIN store[i].likes.arr } :
              i \in { k \in DOMAIN store : store[k]._id = id } }

\* C3: when like(id, u) on a stored record id is followed at once by like(id, u)
\* again, the first call returned true, the second returns false, and the
\* second leaves the record's like set as the first left it.
C3_SecondLikeChangesNothing ==
    [][ ( /\ is_connected(client)
          /\ LikeCall(req, resp) /\ Stored(reels, req.id)
          /\ LikeCall(req', resp') /\ req'.id = req.id /\ req'.user = req.user )
        => ( /\ resp.success
             /\ ~resp'.success
             /\ LikeSet(reels', req.id) = LikeSet(reels, req.id) ) ]_vars

NoDuplicates(s) == \A i, j \in DOMAIN s : s[i] = s[j] => i = j

\* C4: in every reachable state no stored record's likes holds the same user
\* identifier more than once.
C4_LikesHoldNoDuplicates ==
    \A i \in DOMAIN reels : NoDuplicates(reels[i].likes.arr)

\* C5: when the gateway is disconnected, every well-formed save, like and comment
\* is answered with success true and saved_to "mock_data", a save with a
\* synthesized id.
C5_DisconnectedWritesReportMockData ==
    (~is_connected(client) /\ WriteAnswered) =>
        /\ resp.status = 200
        /\ resp.success
        /\ resp.saved_to = "mock_data"
        /\ resp.kind = "save" => resp.id # ""

\* The requests C6 is about: a like without user_id, a comment without user_id
\* or comment, a search with an empty q, a save without data
Rejectable(rq) ==
    \/ rq.op = "like" /\ rq.body \in {"empty", "object"} /\ rq.user = ""
    \/ rq.op = "comment" /\ rq.body \in {"empty", "object"}
          /\ (rq.user = "" \/ rq.comment = "")
    \/ rq.op = "search" /\ rq.query.q = ""
    \/ rq.op = "save" /\ rq.body = "empty"

\* C6: a like without user_id, a comment without user_id or comment, a search
\* with an empty q and a save without data are each answered with status 400,
\* success false and an error message ("User ID required" for a like), and
\* leave the stored records as they were.
C6_MalformedRequestsGet400 ==
    [][ Rejectable(req') =>
            ( /\ resp'.status = 400
              /\ ~resp'.success
              /\ resp'.error # ""
              /\ req'.op = "like" => resp'.error = "User ID required"
              /\ reels' = reels ) ]_vars

\* The entries of all the stored likes arrays, and the users each record's
\* likes holds
LikeEntries(store) ==
    UNION { { <<i, j>> : j \in DOMAIN store[i].likes.arr } : i \in DOMAIN store }
LikeUsers(store) ==
    UNION { { <<i, store[i].likes.arr[j]>> : j \in DOMAIN store[i].likes.arr } :
              i \in DOMAIN store }

\* The statistics answer reports n records with likes likes in total
StatsAnswerIs(n, likes) ==
    /\ resp.status = 200
    /\ resp.source = "database"
    /\ resp.stats.total_reels = n
    /\ resp.stats.total_likes = likes
    /\ resp.stats.avg_likes_per_reel = IF n > 0 THEN Ratio(likes, n) ELSE Zero

DisconnectedList == ~is_connected(client) /\ req.op = "list" /\ resp.status = 200

\* C8: with a disconnected store GET /reels?limit=n returns exactly n records,
\* all of them mock records, when the third-party fetch fails (error, non-200,
\* no or an empty item list); when the fetch delivers a non-empty item list it
\* returns at most n records, none of them a mock record.
C8_DisconnectedListFollowsTheFetch ==
    DisconnectedList =>
        IF req.api = "items"
        THEN /\ resp.count <= req.n
             /\ Len(resp.reels) = resp.count
             /\ \A k \in DOMAIN resp.reels : ~resp.reels[k].isMock
        ELSE /\ resp.count = req.n
             /\ Len(resp.reels) = resp.count
             /\ \A k \in DOMAIN resp.reels : resp.reels[k].isMock

\* the fetch failed and the default of 20 mock records was returned
C8_TwentyMockRecords ==
    /\ DisconnectedList /\ req.api = "non200" /\ req.query.limit = None
    /\ resp.count = 20
    /\ resp.reels[20].isMock

\* C8 as stated: with a disconnected store GET /reels?limit=n returns exactly n
\* records, all of them mock records, for every outcome of the third-party
\* fetch.
C8_DisconnectedListIsAllMock ==
    DisconnectedList =>
        /\ resp.count = req.n
        /\ \A k \in DOMAIN resp.reels : resp.reels[k].isMock

-----------------------------------------------------------------------------
(* The claims about the mock generator and the normalizer *)

AllowList(generator) ==
    IF generator = "service" THEN { ServiceUrls[k] : k \in DOMAIN ServiceUrls }
    ELSE { ScraperUrls[k] : k \in DOMAIN ScraperUrls }

\* C9: for every count >= 0 and context label both mock generators return
\* exactly count records, each with isMock true, a videoUrl of the generator's
\* fixed list and the id fallback_{context}_{i}, distinct from the id of every
\* other record of the call.
C9_GeneratorReturnsCountMockRecords ==
    gen.done =>
        /\ Len(gen.out) = gen.count
        /\ \A k \in DOMAIN gen.out :
              /\ gen.out[k].isMock
              /\ gen.out[k].videoUrl \in AllowList(gen.generator)
              /\ gen.out[k].id = "fallback_" \o gen.context \o "_" \o ToString(k - 1)
        /\ \A j, k \in DOMAIN gen.out : j # k => gen.out[j].id # gen.out[k].id

\* the scraper's generator returned two records, the second with its fourth URL
C9_TwoScraperRecords ==
    /\ gen.done /\ gen.generator = "scraper" /\ gen.count = 2
    /\ Len(gen.out) = 2
    /\ gen.out[2].id = "fallback_dance_1"
    /\ gen.out[2].videoUrl = ScraperUrls[4]

\* a non-empty string starting with "http"
HttpString(v) == v.t = "str" /\ Len(v.s) >= 4 /\ SubSeq(v.s, 1, 4) = "http"

\* The ordered candidates of a raw payload: video.downloadAddr, video.playAddr,
\* videoUrl, video.url (VNone for one the payload does not hold)
Candidates(vd) ==
    IF vd.shape # "dict" THEN <<VNone, VNone, VNone, VNone>>
    ELSE << IF vd.video = "dict" THEN vd.downloadAddr ELSE VNone,
            IF vd.video = "dict" THEN vd.playAddr ELSE VNone,
            vd.videoUrl,
            IF vd.video = "dict" THEN vd.url ELSE VNone >>

Qualifies(vd) == \E k \in 1 .. 4 : HttpString(Candidates(vd)[k])

FirstQualifying(vd) ==
    LET c == Candidates(vd)
    IN  c[CHOOSE k \in 1 .. 4 : HttpString(c[k]) /\ \A j \in 1 .. (k - 1) : ~HttpString(c[j])]

\* C10: a payload none of whose candidates is a non-empty string starting with
\* "http" normalizes to None and adds no record to the result list; a record
\* the normalizer produces carries the first qualifying candidate as videoUrl;
\* so every record of the result list has a videoUrl starting with "http".
C10_NormalizerKeepsFirstHttpUrl ==
    /\ norm.i > 0 =>
          LET vd == norm.video_list[norm.i]
          IN  /\ ~Qualifies(vd) => norm.processed_video = <<>>
              /\ norm.processed_video # <<>> =>
                    /\ Qualifies(vd)
                    /\ norm.processed_video[1].videoUrl = FirstQualifying(vd).s
    /\ Len(norm.processed)
          <= Cardinality({ j \in 1 .. norm.i : Qualifies(norm.video_list[j]) })
    /\ \A k \in DOMAIN norm.processed :
          /\ Len(norm.processed[k].videoUrl) >= 4
          /\ SubSeq(norm.processed[k].videoUrl, 1, 4) = "http"

\* a payload whose first candidate is no http URL was kept with its second
\* candidate, and the next payload, without a qualifying candidate, was dropped
C10_SecondCandidateKept ==
    /\ norm.i = 2
    /\ Len(norm.processed) = 1
    /\ norm.video_list[1].downloadAddr = VStr("ftp://cdn/d.mp4")
    /\ norm.processed[1].videoUrl = "https://cdn/p.mp4"
    /\ ~Qualifies(norm.video_list[2])
    /\ norm.processed_video = <<>>

-----------------------------------------------------------------------------
(* The claims about the gateway's writes *)

\* C11: when the gateway is disconnected, its like and comment operations
\* return false (the handler passes the returned value on as success).
C11_DisconnectedMutationsReturnFalse ==
    (~is_connected(client) /\ Truthy(db) /\ resp.kind \in {"like", "comment"})
        => ~resp.success

\* 24 hexadecimal digits, the format ObjectId accepts
HexDigits ==
    {"0", "1", "2", "3", "4", "5", "6", "7", "8", "9", "a", "b", "c", "d", "e", "f",
     "A", "B", "C", "D", "E", "F"}
ValidIdFormat(text) ==
    Len(text) = 24 /\ \A k \in 1 .. 24 : SubSeq(text, k, k) \in HexDigits

\* C12: with a connected store a like whose id has no valid format or names no
\* stored record is answered without an exception, returns false and leaves
\* every stored record as it was.
C12_LikeOfUnknownIdReturnsFalse ==
    [][ ( /\ is_connected(client)
          /\ req'.op = "like" /\ resp'.kind = "like"
          /\ (~ValidIdFormat(req'.id) \/ ~Stored(reels, req'.id)) )
        => ( /\ resp'.status = 200
             /\ ~resp'.success
             /\ reels' = reels ) ]_vars

\* a like of a well-formed id that names no record, next to a stored record
C12_UnknownIdLiked ==
    /\ is_connected(client)
    /\ req.op = "like" /\ resp.kind = "like" /\ ~req.fails
    /\ ValidIdFormat(req.id) /\ ~Stored(reels, req.id)
    /\ Len(reels) = 1
    /\ ~resp.success


-----------------------------------------------------------------------------
(* The claims about the gateway's list *)

\* The filter a list request asks for, both sides lower-cased
MatchesIgnoringCase(doc, hashtag, username) ==
    /\ hashtag # None =>
          \E i \in DOMAIN doc.hashtags.arr : Lower(doc.hashtags.arr[i]) = Lower(hashtag)
    /\ username # None =>
          (doc.username.t = "str" /\ Lower(doc.username.s) = Lower(username))

\* C13: with a connected store, a list request is answered with exactly the
\* stored records that satisfy every filter it supplies, a hashtag or a
\* username matching a stored value ignoring the case of both, newest first,
\* skip and limit applied after the ordering.
C13_ListMatchesIgnoringCase ==
    (is_connected(client) /\ Truthy(db) /\ req.op = "list" /\ resp.kind = "list"
        /\ ~req.fails)
        => LET q == req.query
               wanted(doc) == MatchesIgnoringCase(doc, q.hashtag, q.username)
               expected == CursorLimit(Drop(SortByCreatedDesc(SelectSeq(reels, wanted)),
                                            ArgInt(q.skip, 0)),
                                       ArgInt(q.limit, DefaultLimit))
           IN  resp.reels = [ i \in DOMAIN expected |->
                                [id |-> expected[i]._id, isMock |-> FALSE] ]


-----------------------------------------------------------------------------
(* The claims about the disconnected gateway *)

\* A request whose handling raises in the handler itself, before or without a
\* call of the gateway: an unparsable or non-object body, a non-numeric limit
\* or skip
HandlerRaises(rq) ==
    \/ rq.body \in {"unparsable", "array"}
    \/ ArgRaises(rq.query.limit)
    \/ ArgRaises(rq.query.skip)

\* C14: constructing the gateway without a connection string or with a failing
\* ping does not raise and leaves it disconnected; a disconnected gateway stays
\* disconnected under every sequence of operations, and none of its operations
\* raises to the handler that called it (a 500 answer comes from the handler's
\* own parsing only).
C14_DisconnectedGatewayStaysAndNeverRaises ==
    /\ \A env \in Envs :
          (~env.uri \/ ~env.ping)
              => (~MongoDB_init(env).raised /\ ~is_connected(MongoDB_init(env).client))
    /\ ~is_connected(client)
    /\ (Truthy(db) /\ resp.status = 500) => HandlerRaises(req)


-----------------------------------------------------------------------------
(* The claims about requests handled at the same time *)

\* The requests on the stored record whose update the store has executed
Executed(th) ==
    /\ threads[th].pc \in {"returned", "done"}
    /\ ~threads[th].fails
    /\ Len(reels) = 1 /\ threads[th].id = reels[1]._id

Occurrences(s, v) == Cardinality({ i \in DOMAIN s : s[i] = v })

-----------------------------------------------------------------------------
(* The claims about what a like or a comment changes *)

\* C16: a like or a comment never changes the id or created_at of a stored
\* record; one that matches a stored record sets that record's updated_at to
\* the time of the call and changes nothing else of it but its likes (like) or
\* its comments (comment), and leaves every other record as it was.
C16_LikeAndCommentKeepTheRest ==
    [][ (req'.op \in {"like", "comment"} /\ resp'.kind \in {"like", "comment", "error"})
          => /\ Len(reels') = Len(reels)
             /\ \A i \in DOMAIN reels :
                   LET old == reels[i]
                       new == reels'[i]
                       matched == /\ resp'.kind # "error" /\ is_connected(client)
                                  /\ ~req'.fails /\ old._id = req'.id
                   IN  /\ new._id = old._id
                       /\ new.created_at = old.created_at
                       /\ IF matched
                          THEN /\ new.updated_at = clock'
                               /\ new.hashtags = old.hashtags
                               /\ new.username = old.username
                               /\ req'.op = "like" => new.comments = old.comments
                               /\ req'.op = "comment" => new.likes = old.likes
                          ELSE new = old ]_vars

\* a like that matched the older of two stored records, later than its save
C16_OlderRecordLikedLater ==
    /\ is_connected(client) /\ req.op = "like" /\ resp.kind = "like" /\ resp.success
    /\ Len(reels) = 2 /\ reels[1]._id = req.id
    /\ reels[1].created_at = 0 /\ reels[1].updated_at = 1
    /\ reels[1].likes.arr # <<>>
    /\ reels[2].updated_at = reels[2].created_at


-----------------------------------------------------------------------------
(* The claims about the gateway's comment operation *)

\* The store executes the add_comment call of thread th in this step
CommentCall(th) ==
    /\ threads[th].pc = "called" /\ threads'[th].pc = "returned"
    /\ threads[th].op = "comment"

\* The step appends one entry to the comments of the record with this id: the
\* earlier entries stay in place, the new one has the four keys, the caller's
\* user and text, the time read by the call and an id no record or comment had
OneCommentAppended(th) ==
    /\ Len(reels') = Len(reels)
    /\ \A i \in DOMAIN reels :
          LET before == reels[i].comments.arr
              after == reels'[i].comments.arr
          IN  IF reels[i]._id # threads[th].id THEN after = before
              ELSE /\ Len(after) = Len(before) + 1
                   /\ SubSeq(after, 1, Len(before)) = before
                   /\ LET entry == after[Len(after)]
                      IN  /\ DOMAIN entry = {"id", "user_id", "text", "timestamp"}
                          /\ entry.user_id = threads[th].user
                          /\ entry.text = threads[th].text
                          /\ entry.timestamp = threads[th].t1
                          /\ IsOidStr(entry.id)
                          /\ \A j \in DOMAIN reels :
                                /\ reels[j]._id # entry.id
                                /\ \A k \in DOMAIN reels[j].comments.arr :
                                      reels[j].comments.arr[k].id # entry.id

NoCommentAdded ==
    /\ Len(reels') = Len(reels)
    /\ \A i \in DOMAIN reels : reels'[i].comments = reels[i].comments

\* C17 as stated: with a connected store, add_comment appends exactly one
\* entry {id, user_id, text, timestamp} with a fresh id to the end of the
\* record's comments and returns true if and only if a record with the id
\* exists; for an invalid or unknown id it returns false and adds no comment.
C17_CommentReturnsWhetherRecordExists ==
    [][ \A th \in Threads :
          (is_connected(client) /\ CommentCall(th))
              => IF Stored(reels, threads[th].id)
                 THEN threads'[th].ret /\ OneCommentAppended(th)
                 ELSE ~threads'[th].ret /\ NoCommentAdded ]_vars

\* C17, amended: the same for the calls in which update_one does not raise; a
\* call in which it raises returns false and adds no comment, whether or not
\* the record exists.
C17_CommentReturnsWhetherRecordWasUpdated ==
    [][ \A th \in Threads :
          (is_connected(client) /\ CommentCall(th))
              => IF Stored(reels, threads[th].id) /\ ~threads'[th].fails
                 THEN threads'[th].ret /\ OneCommentAppended(th)
                 ELSE ~threads'[th].ret /\ NoCommentAdded ]_vars

\* two comments on the stored record, the second appended behind the first
C17_SecondCommentAppended ==
    /\ Len(reels) = 1 /\ Len(reels[1].comments.arr) = 2
    /\ \A th \in Threads : threads[th].op = "comment" /\ threads[th].ret
                              /\ threads[th].pc \in {"returned", "done"}
    /\ reels[1].comments.arr[1].id # reels[1].comments.arr[2].id


-----------------------------------------------------------------------------
(* The claims about the fetch operations *)

\* The third-party call behind the fetch failed: no library session, a raised
\* error (one the iterator raises after the loop has left it does not happen),
\* a status other than 200, a body without an itemList, or an itemList none
\* of whose items the normalizer accepts
FetchFailed ==
    IF fetch.layer = "client"
    THEN \/ ~fetch.ready
         \/ fetch.api.kind = "error"
         \/ /\ fetch.api.kind = "items_then_error"
            /\ ~Client_collect(fetch.api.items, fetch.count, <<>>).broke
    ELSE \/ fetch.api.kind # "items"
         \/ \A i \in DOMAIN fetch.api.items :
               Service_process_one(fetch.api.items[i], 10000, [url |-> 1, lo |-> TRUE]) = <<>>

\* The sequence a fetch returned holds a record of the mock generator
HasMock(videos) == \E i \in DOMAIN videos : videos[i].isMock

\* C18: whatever the third-party call does, a fetch operation returns a
\* sequence; a failed fetch returns the empty sequence, and records of the
\* mock generator appear only after a failed fetch.
C18_FailedFetchGivesEmptySequence ==
    fetch.done
        => /\ FetchFailed => fetch.out = <<>>
           /\ HasMock(fetch.out) => FetchFailed


\* C19: the normalizer raises on no payload, and a field other than the URL
\* that cannot be extracted (a challenges entry without a title, an author or
\* stats value that is no object) falls back to its default: a payload with a
\* qualifying http URL, whose URL fields can be read, always gives a record.
C19_QualifyingPayloadIsNeverRejected ==
    norm.i > 0 =>
        LET vd == norm.video_list[norm.i]
        IN  (Qualifies(vd) /\ vd.video # "nondict") => norm.processed_video # <<>>


-----------------------------------------------------------------------------
(* The claims about failing writes *)

\* C20: with a connected gateway, a well-formed save, like or comment request
\* is answered with success true also when the store call behind it fails (a
\* malformed or unknown id, a save the store rejects); success false answers
\* malformed requests only.
C20_ConnectedWritesReportSuccess ==
    (is_connected(client) /\ Truthy(db) /\ req.op \in {"save", "like", "comment"})
        => (resp.success <=> resp.status = 200)

-----------------------------------------------------------------------------
(* The claims about construction and reported connectivity *)

\* C21: a gateway constructed with a connection string and a successful ping is
\* connected, however its index creation step ended, and calling index
\* creation again neither raises nor changes that.
C21_PingSuccessEndsConnected ==
    (boot.env.uri /\ boot.env.ping)
        => /\ is_connected(client)
           /\ ~boot.raised

\* C22: what the endpoints report agrees with the gateway: /health reports
\* database_connected exactly when is_connected() holds, and a handler answers
\* from its database branch exactly when is_connected() holds.
C22_ReportedConnectivityAgrees ==
    /\ resp.kind = "health" => (resp.database_connected <=> is_connected(client))
    /\ resp.kind = "stats" => (resp.source = "database" <=> is_connected(client))


-----------------------------------------------------------------------------
(* The claims about the history of the persisted records *)

\* The users a likes field holds
LikeUsersOf(field) == { field.arr[j] : j \in DOMAIN field.arr }

\* Sequence a is the beginning of sequence b
IsPrefix(a, b) == Len(a) <= Len(b) /\ SubSeq(b, 1, Len(a)) = a

\* The record new is the record old, grown: the same identity and saved
\* fields, every user of the old like set, the old comments at the front
RecordKept(old, new) ==
    /\ new._id = old._id
    /\ new.created_at = old.created_at
    /\ new.hashtags = old.hashtags
    /\ new.username = old.username
    /\ LikeUsersOf(old.likes) \subseteq LikeUsersOf(new.likes)
    /\ Len(old.likes.arr) <= Len(new.likes.arr)
    /\ IsPrefix(old.comments.arr, new.comments.arr)

\* A step removes no record, keeps every record in its place and grown, and
\* lowers neither the number of records nor the number of likes
StoreGrows ==
    /\ Len(reels') >= Len(reels)
    /\ \A i \in DOMAIN reels : RecordKept(reels[i], reels'[i])
    /\ SumLikes(reels') >= SumLikes(reels)

\* C23: across save, stats, like and comment requests no record is removed or
\* replaced, no user leaves a like set, earlier comments stay a prefix of the
\* later ones, and total_reels and total_likes reported by stats never decrease
\* from one stats answer to the next.
C23_PersistedAndReportedOnlyGrow ==
    [][ /\ StoreGrows
        /\ (resp.kind = "stats" /\ resp'.kind = "stats")
              => /\ resp'.stats.total_reels >= resp.stats.total_reels
                 /\ resp'.stats.total_likes >= resp.stats.total_likes ]_vars

\* C23, amended: the persisted state only grows, and a stats answer whose store
\* calls succeed reports the totals of the store at that time, which never
\* decrease; an answer whose store calls raise reports zeros.
C23_PersistedStateOnlyGrows ==
    [][ /\ StoreGrows
        /\ (resp'.kind = "stats" /\ req'.op = "stats")
              => IF req'.fails
                 THEN resp'.stats.total_reels = 0 /\ resp'.stats.total_likes = 0
                 ELSE /\ resp'.stats.total_reels = Len(reels')
                      /\ resp'.stats.total_likes = SumLikes(reels') ]_vars

\* the stored record after a second user's like and a second comment, both
\* behind what it held, and a stats answer that counts them
C23_RecordGrewTwice ==
    /\ Len(reels) = 1
    /\ reels[1].likes.arr = <<"u1", "u2">>
    /\ Len(reels[1].comments.arr) = 2
    /\ reels[1].comments.arr[1].id = OidStr(0)
    /\ resp.kind = "stats" /\ ~req.fails
    /\ resp.stats.total_reels = 1 /\ resp.stats.total_likes = 2

=============================================================================
